---- MODULE Spec2Model ----
(***************************************************************************)
(* Model of the nested-thread chat of src/app.py: the session state kept   *)
(* in st.session_state (threads, current_thread, link_parent,              *)
(* uploaded_files), the helpers add_message and create_new_thread, and the *)
(* button handlers of the render functions.  Ids are the strings the code  *)
(* formats from the millisecond clock.                                     *)
(***************************************************************************)
EXTENDS Integers, Sequences, FiniteSets, TLC

VARIABLES threads, current_thread, link_parent, uploaded_files, clock, lastOp, steps

vars == <<threads, current_thread, link_parent, uploaded_files, clock, lastOp, steps>>

\* ------------------------------------------------------------------ bounds
\* Largest number of interactions in one session.
MaxOps == 4

\* ------------------------------------------------------------ Python values
\* Python's None, for Optional[str] fields and absent session attributes.
None == "None"

\* Truthiness of an Optional[str]: None and "" are falsy.
Truthy(x) == x # None /\ x # ""

\* str(d) for one decimal digit.
Digit(d) == SubSeq("0123456789", d + 1, d + 1)

\* The decimal text an f-string gives a non-negative int.
RECURSIVE Str(_)
Str(n) == IF n < 10 THEN Digit(n) ELSE Str(n \div 10) \o Digit(n % 10)

\* Characters str.strip() removes.
Whitespace == {" ", "\t", "\n", "\r", "\f"}

RECURSIVE lstrip(_)
lstrip(s) ==
  IF Len(s) > 0 /\ SubSeq(s, 1, 1) \in Whitespace
  THEN lstrip(SubSeq(s, 2, Len(s)))
  ELSE s

RECURSIVE rstrip(_)
rstrip(s) ==
  IF Len(s) > 0 /\ SubSeq(s, Len(s), Len(s)) \in Whitespace
  THEN rstrip(SubSeq(s, 1, Len(s) - 1))
  ELSE s

strip_missing(s) == s

\* message_input.strip()
strip(s) == rstrip(lstrip(s))

\* ', '.join(names)
RECURSIVE Join(_)
Join(names) ==
  IF Len(names) = 0 THEN ""
  ELSE IF Len(names) = 1 THEN names[1]
  ELSE names[1] \o ", " \o Join(Tail(names))

\* ------------------------------------------------------------- data models
Message(id, content, role, timestamp, parent_id, thread_id, attachments) ==
  [id |-> id, content |-> content, role |-> role, timestamp |-> timestamp,
   parent_id |-> parent_id, thread_id |-> thread_id, attachments |-> attachments]

Thread(id, name, messages, parent_thread_id, created_at) ==
  [id |-> id, name |-> name, messages |-> messages,
   parent_thread_id |-> parent_thread_id, created_at |-> created_at]

\* d[k] = v on a dict.
Put(d, k, v) == [x \in DOMAIN d \cup {k} |-> IF x = k THEN v ELSE d[x]]

\* f"msg_{int(time.time() * 1000)}" and f"thread_{int(time.time() * 1000)}"
msg_id(t) == "msg_" \o Str(t)
thread_id_at(t) == "thread_" \o Str(t)

\* f"Thread {len(st.session_state.threads) + 1}"
default_name(ths) == "Thread " \o Str(Cardinality(DOMAIN ths) + 1)

\* --------------------------------------------------------------- the inputs
\* What the uploader holds: nothing, or a text file.
NoFile == [name |-> "", size |-> 0, type |-> "", data |-> ""]
Uploads ==
  {NoFile,
   [name |-> "a.txt", size |-> 2, type |-> "text/plain", data |-> "hi"]}

\* What the text area holds when Send is pressed: blank, or a message.
Texts == {"", " \n", "hi"}

\* thread_id arguments given to add_message: omitted, known, or unknown.
ThreadIdArgs == {None, "side"}

\* parent_message_id arguments given to create_new_thread.
ParentArgs == {None, "", msg_id(0)}

\* ------------------------------------------------------------------ helpers
\* process_uploaded_file: text is decoded, other content stays None (the
\* uploads above hold no image, whose content the code base64-encodes).
process_uploaded_file(f) ==
  [name |-> f.name, size |-> f.size, type |-> f.type,
   content |-> IF SubSeq(f.type, 1, 5) = "text/" THEN f.data ELSE None]

add_message_prepend(ths, cur, content, role, thread_id, attachments, parent_id, t) ==
  LET tid == IF thread_id = None THEN cur ELSE thread_id
      message == Message(msg_id(t), content, role, t, parent_id, tid, attachments)
  IN IF tid \in DOMAIN ths
     THEN [ths EXCEPT ![tid].messages = <<message>> \o @]
     ELSE Put(ths, tid, Thread(tid, default_name(ths), <<message>>, None, t))

add_message_name_off_by_one(ths, cur, content, role, thread_id, attachments, parent_id, t) ==
  LET tid == IF thread_id = None THEN cur ELSE thread_id
      message == Message(msg_id(t), content, role, t, parent_id, tid, attachments)
  IN IF tid \in DOMAIN ths
     THEN [ths EXCEPT ![tid].messages = Append(@, message)]
     ELSE Put(ths, tid,
              Thread(tid, "Thread " \o Str(Cardinality(DOMAIN ths)), <<message>>, None, t))

\* add_message: the threads dict after the call, made at clock reading t
\* with current thread cur.
add_message(ths, cur, content, role, thread_id, attachments, parent_id, t) ==
  LET tid == IF thread_id = None THEN cur ELSE thread_id
      message == Message(msg_id(t), content, role, t, parent_id, tid, attachments)
  IN IF tid \in DOMAIN ths
     THEN [ths EXCEPT ![tid].messages = Append(@, message)]
     ELSE Put(ths, tid, Thread(tid, default_name(ths), <<message>>, None, t))

create_new_thread_never_parent(ths, cur, parent_message_id, t) ==
  Put(ths, thread_id_at(t), Thread(thread_id_at(t), default_name(ths), <<>>, None, t))

\* create_new_thread: the threads dict after the call; the id returned is
\* thread_id_at(t).
create_new_thread(ths, cur, parent_message_id, t) ==
  Put(ths, thread_id_at(t),
      Thread(thread_id_at(t), default_name(ths), <<>>,
             IF Truthy(parent_message_id) THEN cur ELSE None, t))

\* The simulated assistant response of the send handler.
assistant_response(message_input, attachments) ==
  (IF Len(message_input) > 50
   THEN "Thank you for your message! I received: '"
          \o SubSeq(message_input, 1, 50) \o "...'"
   ELSE "Thank you for your message: '" \o message_input \o "'")
  \o (IF Len(attachments) > 0
      THEN "\n\nI also received " \o Str(Len(attachments)) \o " file(s): "
             \o Join([i \in 1..Len(attachments) |-> attachments[i].name])
      ELSE "")

\* Threads the hierarchy view lists under thread_id, and at top level.
childrenOf(ths, thread_id) ==
  {tid \in DOMAIN ths : ths[tid].parent_thread_id = thread_id}
rootThreads(ths) ==
  {tid \in DOMAIN ths : ths[tid].parent_thread_id = None}

\* One more interaction of the session.
Count == steps < MaxOps /\ steps' = steps + 1

Op(op, arg, ret) == [op |-> op, arg |-> arg, ret |-> ret]

\* ---------------------------------------------------------------- the state
Init ==
  /\ threads = [k \in {"main"} |-> Thread("main", "Main Conversation", <<>>, None, 0)]
  /\ current_thread = "main"
  /\ link_parent = None
  /\ uploaded_files = <<>>
  /\ clock = 0
  /\ steps = 0
  /\ lastOp = Op("init", None, None)

\* Time passes between two interactions.
Tick ==
  /\ clock' = clock + 1
  /\ Count
  /\ lastOp' = Op("tick", None, None)
  /\ UNCHANGED <<threads, current_thread, link_parent, uploaded_files>>

SendClicked_link_not_passed(message_input, uploaded_file, t2) ==
  IF strip(message_input) # ""
  THEN LET attachments == IF uploaded_file # NoFile
                          THEN <<process_uploaded_file(uploaded_file)>>
                          ELSE <<>>
           ths1 == add_message(threads, current_thread, message_input, "user",
                               None, attachments, None, clock)
           ths2 == add_message(ths1, current_thread,
                               assistant_response(message_input, attachments),
                               "assistant", None, <<>>, None, t2)
       IN /\ threads' = ths2
          /\ uploaded_files' = uploaded_files \o attachments
          /\ link_parent' = None
          /\ clock' = t2
          /\ Count
          /\ lastOp' = Op("send", message_input, "rerun")
          /\ UNCHANGED current_thread
  ELSE /\ t2 = clock
       /\ Count
       /\ lastOp' = Op("send", message_input, None)
       /\ UNCHANGED <<threads, current_thread, link_parent, uploaded_files, clock>>

\* "Send Message" pressed with message_input in the text area and
\* uploaded_file in the uploader; the clock reads clock at the user message
\* and t2 at the assistant message.
SendClicked(message_input, uploaded_file, t2) ==
  IF strip(message_input) # ""
  THEN LET attachments == IF uploaded_file # NoFile
                          THEN <<process_uploaded_file(uploaded_file)>>
                          ELSE <<>>
           ths1 == add_message(threads, current_thread, message_input, "user",
                               None, attachments, link_parent, clock)
           ths2 == add_message(ths1, current_thread,
                               assistant_response(message_input, attachments),
                               "assistant", None, <<>>, None, t2)
       IN /\ threads' = ths2
          /\ uploaded_files' = uploaded_files \o attachments
          /\ link_parent' = None
          /\ clock' = t2
          /\ Count
          /\ lastOp' = Op("send", message_input, "rerun")
          /\ UNCHANGED current_thread
  ELSE /\ t2 = clock
       /\ Count
       /\ lastOp' = Op("send", message_input, None)
       /\ UNCHANGED <<threads, current_thread, link_parent, uploaded_files, clock>>

\* Either "New Thread" button: create_new_thread() and switch to it.
NewThreadClicked ==
  /\ threads' = create_new_thread(threads, current_thread, None, clock)
  /\ current_thread' = thread_id_at(clock)
  /\ Count
  /\ lastOp' = Op("new_thread_clicked", None, thread_id_at(clock))
  /\ UNCHANGED <<link_parent, uploaded_files, clock>>

SwitchThreadClicked_any_id(thread_id) ==
  /\ current_thread' = thread_id
  /\ Count
  /\ lastOp' = Op("switch", None, "rerun")
  /\ UNCHANGED <<threads, link_parent, uploaded_files, clock>>

\* A thread's button in the sidebar: one button per thread in the dict.
SwitchThreadClicked(thread_id) ==
  /\ thread_id \in DOMAIN threads
  /\ current_thread' = thread_id
  /\ Count
  /\ lastOp' = Op("switch", None, "rerun")
  /\ UNCHANGED <<threads, link_parent, uploaded_files, clock>>

\* The link button of the i-th message shown in the current thread.
LinkClicked(i) ==
  /\ current_thread \in DOMAIN threads
  /\ i \in 1..Len(threads[current_thread].messages)
  /\ link_parent' = threads[current_thread].messages[i].id
  /\ Count
  /\ lastOp' = Op("link", None, None)
  /\ UNCHANGED <<threads, current_thread, uploaded_files, clock>>

\* "Link to Parent": only reports the pending link target.
LinkToParentClicked ==
  /\ link_parent # None
  /\ Count
  /\ lastOp' = Op("link_to_parent", None, None)
  /\ UNCHANGED <<threads, current_thread, link_parent, uploaded_files, clock>>

ClearClicked_keeps_link ==
  /\ threads' = [threads EXCEPT ![current_thread].messages = <<>>]
  /\ Count
  /\ lastOp' = Op("clear", None, "rerun")
  /\ UNCHANGED <<current_thread, link_parent, uploaded_files, clock>>

\* "Clear" pressed.
ClearClicked ==
  /\ threads' = [threads EXCEPT ![current_thread].messages = <<>>]
  /\ link_parent' = None
  /\ Count
  /\ lastOp' = Op("clear", None, "rerun")
  /\ UNCHANGED <<current_thread, uploaded_files, clock>>

\* "Export Chat Data": builds the export from the session, changes nothing.
ExportClicked ==
  /\ Count
  /\ lastOp' = Op("export", None, None)
  /\ UNCHANGED <<threads, current_thread, link_parent, uploaded_files, clock>>

\* create_new_thread(parent_message_id) called on its own (no switch).
CreateThread(parent_message_id) ==
  /\ threads' = create_new_thread(threads, current_thread, parent_message_id, clock)
  /\ Count
  /\ lastOp' = Op("create_new_thread", parent_message_id, thread_id_at(clock))
  /\ UNCHANGED <<current_thread, link_parent, uploaded_files, clock>>

\* add_message(content, role, thread_id) called on its own.
AddMessage(content, role, thread_id) ==
  /\ threads' = add_message(threads, current_thread, content, role, thread_id,
                            <<>>, None, clock)
  /\ Count
  /\ lastOp' = Op("add_message",
                  IF thread_id = None THEN current_thread ELSE thread_id, None)
  /\ UNCHANGED <<current_thread, link_parent, uploaded_files, clock>>

Next ==
  \/ Tick
  \/ \E m \in Texts, f \in Uploads, t2 \in {clock, clock + 1} :
       SendClicked(m, f, t2)
  \/ NewThreadClicked
  \/ \E tid \in DOMAIN threads \cup ThreadIdArgs : SwitchThreadClicked(tid)
  \/ \E i \in 1..Len(threads[current_thread].messages) : LinkClicked(i)
  \/ LinkToParentClicked
  \/ ClearClicked
  \/ ExportClicked
  \/ \E p \in ParentArgs : CreateThread(p)
  \/ \E tid \in ThreadIdArgs : AddMessage("note", "user", tid)

Spec == Init /\ [][Next]_vars

\* ------------------------------------------------------------------ claims
\* s is a prefix of t.
IsPrefix(s, t) == Len(s) <= Len(t) /\ SubSeq(t, 1, Len(s)) = s

\* The blank texts among the inputs: empty, and whitespace only.
BlankInputs == {"", " \n"}

\* C1: a send with non-blank text grows the messages of the thread current
\* at the call by exactly two, a user message then an assistant message,
\* after all earlier messages; no other thread changes its messages; and no
\* link target is pending afterwards.
C1_SendAppendsUserThenAssistant ==
  [][(lastOp'.op = "send" /\ lastOp'.arg \notin BlankInputs) =>
       LET cur == current_thread
           old == threads[cur].messages
           new == threads'[cur].messages
       IN /\ Len(new) = Len(old) + 2
          /\ SubSeq(new, 1, Len(old)) = old
          /\ new[Len(old) + 1].role = "user"
          /\ new[Len(old) + 2].role = "assistant"
          /\ DOMAIN threads' = DOMAIN threads
          /\ \A t \in DOMAIN threads \ {cur} :
               threads'[t].messages = threads[t].messages
          /\ link_parent' = None]_vars

\* A send has just appended to a thread that already held a message, with a
\* link target pending at the call, while another thread holds messages.
C1_Witness ==
  /\ lastOp.op = "send" /\ lastOp.arg \notin BlankInputs
  /\ Len(threads[current_thread].messages) >= 3
  /\ \E i \in 1..Len(threads[current_thread].messages) :
       threads[current_thread].messages[i].parent_id # None
  /\ \E t \in DOMAIN threads \ {current_thread} : Len(threads[t].messages) > 0

C3_ThreadIdsUnique ==
  [][lastOp'.op \in {"create_new_thread", "new_thread_clicked"} =>
       lastOp'.ret \notin DOMAIN threads]_vars

\* C4: no two messages held in the store have the same id.
C4_MessageIdsUnique ==
  \A t1 \in DOMAIN threads, t2 \in DOMAIN threads :
    \A i \in 1..Len(threads[t1].messages), j \in 1..Len(threads[t2].messages) :
      (t1 # t2 \/ i # j) => threads[t1].messages[i].id # threads[t2].messages[j].id

\* C5: the current thread is a thread of the store.
C5_CurrentThreadExists == current_thread \in DOMAIN threads

\* A thread other than main was created, made current, and cleared.
C5_Witness ==
  /\ lastOp.op = "clear"
  /\ current_thread # "main"
  /\ Cardinality(DOMAIN threads) >= 2

\* C6: a clear leaves the current thread with no messages and its id, name
\* and parent as they were, every other thread and the current thread as
\* they were, and no link target pending.
C6_ClearKeepsThreadRecord ==
  [][lastOp'.op = "clear" =>
       LET cur == current_thread
       IN /\ DOMAIN threads' = DOMAIN threads
          /\ threads'[cur].messages = <<>>
          /\ threads'[cur].id = threads[cur].id
          /\ threads'[cur].name = threads[cur].name
          /\ threads'[cur].parent_thread_id = threads[cur].parent_thread_id
          /\ \A t \in DOMAIN threads \ {cur} : threads'[t] = threads[t]
          /\ current_thread' = cur
          /\ link_parent' = None]_vars

\* A clear has just emptied the store's only sent messages (the file sent
\* with them is still listed), while another thread keeps its messages.
C6_Witness ==
  /\ lastOp.op = "clear"
  /\ threads[current_thread].messages = <<>>
  /\ Len(uploaded_files) > 0
  /\ \E t \in DOMAIN threads \ {current_thread} : Len(threads[t].messages) > 0

\* C7: create_new_thread stores under the id it returns a thread with no
\* messages whose parent is the thread current at the call when the argument
\* is truthy and None otherwise; the thread is then among the children of
\* the current thread, or among the root threads.
C7_CreateThreadParent ==
  [][lastOp'.op \in {"create_new_thread", "new_thread_clicked"} =>
       LET T == lastOp'.ret
           P == current_thread
           parentOfCurrent == lastOp'.arg # None /\ lastOp'.arg # ""
       IN /\ T \in DOMAIN threads'
          /\ threads'[T].messages = <<>>
          /\ threads'[T].parent_thread_id = (IF parentOfCurrent THEN P ELSE None)
          /\ parentOfCurrent => T \in childrenOf(threads', P)
          /\ ~parentOfCurrent => T \in rootThreads(threads')]_vars

\* A thread was just created under a current thread that is itself a root
\* thread created earlier.
C7_Witness ==
  /\ lastOp.op = "create_new_thread" /\ Truthy(lastOp.arg)
  /\ lastOp.ret # current_thread
  /\ current_thread # "main"
  /\ threads[lastOp.ret].parent_thread_id = current_thread
  /\ current_thread \in rootThreads(threads)

\* C8: add_message on an unknown thread id adds one thread with that id, the
\* default name for the thread count before the call, no parent and exactly
\* the appended message, and leaves the other threads as they were; on a
\* known id it extends that thread by the message and adds no thread.
C8_AppendCreatesUnknownThread ==
  [][lastOp'.op = "add_message" =>
       LET tid == lastOp'.arg
       IN IF tid \notin DOMAIN threads
          THEN /\ DOMAIN threads' = DOMAIN threads \cup {tid}
               /\ threads'[tid].id = tid
               /\ threads'[tid].name
                    = "Thread " \o Str(Cardinality(DOMAIN threads) + 1)
               /\ threads'[tid].parent_thread_id = None
               /\ Len(threads'[tid].messages) = 1
               /\ threads'[tid].messages[1].thread_id = tid
               /\ threads'[tid].messages[1].content = "note"
               /\ \A t \in DOMAIN threads : threads'[t] = threads[t]
          ELSE /\ DOMAIN threads' = DOMAIN threads
               /\ Len(threads'[tid].messages) = Len(threads[tid].messages) + 1
               /\ IsPrefix(threads[tid].messages, threads'[tid].messages)
               /\ threads'[tid].messages[Len(threads'[tid].messages)].thread_id = tid
               /\ threads'[tid].messages[Len(threads'[tid].messages)].content = "note"
               /\ threads'[tid].name = threads[tid].name
               /\ threads'[tid].parent_thread_id = threads[tid].parent_thread_id
               /\ \A t \in DOMAIN threads \ {tid} : threads'[t] = threads[t]]_vars

\* add_message has just created the thread "side" as the third thread.
C8_Witness ==
  /\ lastOp.op = "add_message" /\ lastOp.arg = "side"
  /\ "side" \in DOMAIN threads
  /\ threads["side"].name = "Thread 3"
  /\ Len(threads["side"].messages) = 1

\* C9: across every operation other than a clear, every thread of the store
\* stays in the store and its messages before are a prefix of its messages
\* after.
C9_MessagesAppendOnly ==
  [][lastOp'.op # "clear" =>
       \A t \in DOMAIN threads :
         /\ t \in DOMAIN threads'
         /\ IsPrefix(threads[t].messages, threads'[t].messages)]_vars

\* target is met within n parent links above thread t.
RECURSIVE ParentChainHits(_, _, _)
ParentChainHits(t, target, n) ==
  IF n = 0 \/ t \notin DOMAIN threads THEN FALSE
  ELSE LET p == threads[t].parent_thread_id
       IN p # None /\ (p = target \/ ParentChainHits(p, target, n - 1))

\* C10: no thread is its own parent or its own ancestor.
C10_ThreadsFormForest ==
  \A t \in DOMAIN threads : ~ParentChainHits(t, t, Cardinality(DOMAIN threads))

\* C11: a send with non-blank text gives the user message the pending link
\* target as parent_id (None when none is pending), whatever thread that
\* target is in, and gives the assistant message no parent_id; the target is
\* then no longer pending, and only a link button makes one pending again,
\* so a following send without a new link gives parent_id None.
C11_LinkTargetConsumedBySend ==
  [][/\ (lastOp'.op = "send" /\ lastOp'.arg \notin BlankInputs) =>
          LET new == threads'[current_thread].messages
              n == Len(new)
          IN /\ n >= 2
             /\ new[n - 1].role = "user"
             /\ new[n - 1].parent_id = link_parent
             /\ new[n].role = "assistant"
             /\ new[n].parent_id = None
             /\ link_parent' = None
     /\ (link_parent' # None /\ link_parent' # link_parent) =>
          lastOp'.op = "link"]_vars

\* A send has just linked its user message to a message held in another
\* thread than the current one.
C11_Witness ==
  /\ lastOp.op = "send" /\ lastOp.arg \notin BlankInputs
  /\ link_parent = None
  /\ LET msgs == threads[current_thread].messages
     IN /\ Len(msgs) >= 2
        /\ msgs[Len(msgs) - 1].parent_id # None
        /\ msgs[Len(msgs)].parent_id = None
        /\ \E t \in DOMAIN threads \ {current_thread} :
             \E j \in 1..Len(threads[t].messages) :
               threads[t].messages[j].id = msgs[Len(msgs) - 1].parent_id

====
